---- MODULE Spec2Model ----
(***************************************************************************)
(* Model of tests/run_tests.py, the golden-file test harness of the        *)
(* repository: the per-test pipeline of run_latex_tests, the failure       *)
(* counter, the command line of main, and the pure helpers they call       *)
(* (text normalisation, continuation merging, ordered subsequence          *)
(* matching, notebook normalisation).                                      *)
(*                                                                         *)
(* Spec is run_latex_tests from the call main makes; MainSpec is main up   *)
(* to that call; MatcherSpec and NormalizeSpec call a helper on its own.   *)
(*                                                                         *)
(* Texts are sequences of one-character strings, so that the helpers       *)
(* are computed character by character as the Python code computes them.   *)
(***************************************************************************)
EXTENDS Integers, Sequences, FiniteSets, TLC

(***************************************************************************)
(* Bounds of the model.                                                    *)
(***************************************************************************)
\* longest list of tests handed to run_latex_tests
MaxTests == 2
\* largest number of lines of a .requires file
MaxReq == 1
\* largest value given to --maxfail= (the default ceiling is added to these)
MaxFailArg == 2
\* largest number of command-line arguments
MaxArgs == 2
\* longest lists of fragments and of lines handed to the matcher on its own
MaxFragments == 2
MaxLines == 3
\* longest text handed to normalize_text on its own
MaxText == 3
\* largest number of cells of a notebook handed to normalize_notebook on its own
MaxCells == 2
\* longest list of lines handed to merge_lines_with_continuation on its own
MaxMergeLines == 4

(***************************************************************************)
(* Program constants.                                                      *)
(***************************************************************************)
\* sys.maxsize, the default ceiling (main); held at the largest integer of the
\* model checker, which no failure count of a bounded run reaches either
sys_maxsize == 2147483647

\* the verdict words printed by the harness
FAIL == "FAIL"
XFAIL == "XFAIL"
REGOLDED == "REGOLDED"
PASS == "PASS"

\* the characters str.strip, str.split and str.rstrip treat as whitespace
Whitespace == {" ", "\t", "\n"}

\* "?? PythonTeX ??"
UnprocessedMarker ==
    <<"?", "?", " ", "P", "y", "t", "h", "o", "n", "T", "e", "X", " ", "?", "?">>

\* "FAIL", the suffix of the base name of an expected-failure test
FailSuffix == <<"F", "A", "I", "L">>

\* ".tex"
TexSuffix == <<".", "t", "e", "x">>

(***************************************************************************)
(* Python string primitives.                                               *)
(***************************************************************************)
\* s.endswith(suffix)
EndsWith(s, suffix) ==
    /\ Len(s) >= Len(suffix)
    /\ SubSeq(s, Len(s) - Len(suffix) + 1, Len(s)) = suffix

\* sub in s
Contains(sub, s) ==
    \E i \in 0..(Len(s) - Len(sub)) : SubSeq(s, i + 1, i + Len(sub)) = sub

\* s.rstrip()
RECURSIVE rstrip(_)
rstrip(s) ==
    IF s = <<>> THEN <<>>
    ELSE IF s[Len(s)] \in Whitespace THEN rstrip(SubSeq(s, 1, Len(s) - 1))
    ELSE s

\* s.lstrip()
RECURSIVE lstrip(_)
lstrip(s) ==
    IF s = <<>> THEN <<>>
    ELSE IF Head(s) \in Whitespace THEN lstrip(Tail(s))
    ELSE s

\* s.strip()
strip(s) == lstrip(rstrip(s))

\* "".join(s.split()): s with every whitespace character removed
JoinSplit(s) == SelectSeq(s, LAMBDA c : c \notin Whitespace)

\* position of the first newline of text, 0 when it has none
RECURSIVE FirstNewline(_, _)
FirstNewline(text, i) ==
    IF i > Len(text) THEN 0
    ELSE IF text[i] = "\n" THEN i
    ELSE FirstNewline(text, i + 1)

\* text.splitlines()
RECURSIVE splitlines(_)
splitlines(text) ==
    IF text = <<>> THEN <<>>
    ELSE LET i == FirstNewline(text, 1)
         IN  IF i = 0 THEN <<text>>
             ELSE <<SubSeq(text, 1, i - 1)>> \o splitlines(SubSeq(text, i + 1, Len(text)))

\* [line for line in lines if line.strip()]
NonBlank(lines) == SelectSeq(lines, LAMBDA line : strip(line) # <<>>)

(***************************************************************************)
(* normalize_text                                                          *)
(***************************************************************************)
\* a normaliser that strips the lines and keeps the whitespace inside them
normalize_text_keep_inner(text) ==
    LET kept == NonBlank(splitlines(text))
    IN  [i \in 1..Len(kept) |-> strip(kept[i])]

normalize_text(text) ==
    LET kept == NonBlank(splitlines(text))
    IN  [i \in 1..Len(kept) |-> JoinSplit(kept[i])]

(***************************************************************************)
(* merge_lines_with_continuation                                           *)
(***************************************************************************)
\* the loop of merge_lines_with_continuation: the lines left, the buffer and
\* the lines merged so far
RECURSIVE MergeLoop(_, _, _)
MergeLoop(lines, buffer, merged_lines) ==
    IF lines = <<>>
    THEN IF buffer # <<>> THEN Append(merged_lines, buffer) ELSE merged_lines
    ELSE LET line == rstrip(Head(lines))
         IN  IF EndsWith(line, <<"~">>)
             THEN MergeLoop(Tail(lines), buffer \o SubSeq(line, 1, Len(line) - 1),
                            merged_lines)
             ELSE IF buffer # <<>>
                  THEN MergeLoop(Tail(lines), <<>>, Append(merged_lines, buffer \o line))
                  ELSE MergeLoop(Tail(lines), <<>>, Append(merged_lines, line))

\* a merger that drops what is buffered when the input ends
merge_lines_drop_buffer(lines) ==
    LET merged == MergeLoop(lines, <<>>, <<>>)
    IN  IF lines # <<>> /\ EndsWith(rstrip(lines[Len(lines)]), <<"~">>)
           /\ merged # <<>>
        THEN SubSeq(merged, 1, Len(merged) - 1)
        ELSE merged

merge_lines_with_continuation(lines) == MergeLoop(lines, <<>>, <<>>)

(***************************************************************************)
(* check_ordered_subsequence_with_missing                                  *)
(***************************************************************************)
\* [normalize_text(line)[0] for line in lines if line.strip()]
NormalizedLines(lines) ==
    LET kept == NonBlank(lines)
    IN  [i \in 1..Len(kept) |-> Head(normalize_text(kept[i]))]

\* a scan that lets one actual line match several fragments in a row
RECURSIVE ScanLoop_reuse(_, _, _)
ScanLoop_reuse(expected_lines, actual_lines, expected_idx) ==
    IF actual_lines = <<>> THEN expected_idx
    ELSE IF expected_idx >= Len(expected_lines) THEN expected_idx
    ELSE IF Contains(expected_lines[expected_idx + 1], Head(actual_lines))
         THEN ScanLoop_reuse(expected_lines, actual_lines, expected_idx + 1)
         ELSE ScanLoop_reuse(expected_lines, Tail(actual_lines), expected_idx)

\* the cursor scan: the value of expected_idx after the loop over actual_lines
RECURSIVE ScanLoop(_, _, _)
ScanLoop(expected_lines, actual_lines, expected_idx) ==
    IF actual_lines = <<>> THEN expected_idx
    ELSE IF expected_idx >= Len(expected_lines) THEN expected_idx
    ELSE IF Contains(expected_lines[expected_idx + 1], Head(actual_lines))
         THEN ScanLoop(expected_lines, Tail(actual_lines), expected_idx + 1)
         ELSE ScanLoop(expected_lines, Tail(actual_lines), expected_idx)

\* a matcher that forgets the order of the fragments
check_ordered_subsequence_unordered(expected_lines, actual_lines) ==
    LET e == NormalizedLines(expected_lines)
        a == NormalizedLines(actual_lines)
    IN  \A j \in 1..Len(e) : \E p \in 1..Len(a) : Contains(e[j], a[p])

check_ordered_subsequence_with_missing(expected_lines, actual_lines) ==
    LET e == NormalizedLines(expected_lines)
        a == NormalizedLines(actual_lines)
    IN  ScanLoop(e, a, 0) = Len(e)

(***************************************************************************)
(* normalize_notebook, notebook_has_code_cells                             *)
(*                                                                         *)
(* A notebook is a function from the keys it has to their values (a        *)
(* Python dict); "cells" is a sequence of such dicts and so is "outputs".  *)
(* A metadata dict is the set of its items.                                *)
(***************************************************************************)
\* None
None == "None"

\* {}
EmptyDict == {}

\* the body of the loop over cell["outputs"]
NormalizeOutput(output) ==
    [k \in DOMAIN output |->
        IF k = "execution_count" THEN None
        ELSE IF k = "metadata" THEN EmptyDict
        ELSE output[k]]

\* a loop body that keeps the execution counter of the cell
NormalizeCell_keep_count(cell) ==
    [k \in DOMAIN cell |->
        IF k = "metadata" THEN EmptyDict
        ELSE IF k = "outputs"
             THEN [i \in 1..Len(cell[k]) |-> NormalizeOutput(cell[k][i])]
        ELSE cell[k]]

\* the body of the loop over nb.get("cells", [])
NormalizeCell(cell) ==
    [k \in DOMAIN cell |->
        IF k = "execution_count" THEN None
        ELSE IF k = "metadata" THEN EmptyDict
        ELSE IF k = "outputs"
             THEN [i \in 1..Len(cell[k]) |-> NormalizeOutput(cell[k][i])]
        ELSE cell[k]]

normalize_notebook(nb) ==
    [k \in DOMAIN nb |->
        IF k = "metadata" THEN EmptyDict
        ELSE IF k = "cells" THEN [i \in 1..Len(nb[k]) |-> NormalizeCell(nb[k][i])]
        ELSE nb[k]]

notebook_has_code_cells(nb) ==
    /\ "cells" \in DOMAIN nb
    /\ \E i \in 1..Len(nb["cells"]) :
          /\ "cell_type" \in DOMAIN nb["cells"][i]
          /\ nb["cells"][i]["cell_type"] = "code"

(***************************************************************************)
(* The inputs of the model: the file names, the texts, the build logs and  *)
(* the notebooks the environment may hold or produce.                      *)
(***************************************************************************)
\* "t.tex", a normal test, and "tFAIL.tex", an expected-failure test
NormalTex == <<"t">> \o TexSuffix
FailTex == <<"t">> \o FailSuffix \o TexSuffix
TexNames == {NormalTex, FailTex}

\* sequences over S of length at most n
SeqsUpTo(S, n) == UNION {[1..k -> S] : k \in 0..n}

\* a file that does not exist, and a file holding content
NoFile == [exists |-> FALSE, content |-> <<>>]
File(content) == [exists |-> TRUE, content |-> content]

\* converted texts: "a b", " ab\n" (the same but for whitespace), "a\nb" (two
\* lines) and a text holding the unprocessed marker
TextAB == <<"a", " ", "b">>
TextABws == <<" ", "a", "b", "\n">>
TextTwoLines == <<"a", "\n", "b">>
TextMarker == <<"a", "\n">> \o UnprocessedMarker
ActualTexts == {TextAB, TextABws, TextTwoLines, TextMarker}
ExpectedTexts == {TextAB}

\* build logs, as the pair (stdout, stderr) of the compiler:
\*   "a~\nb\n" + "c"   the lines a~, b, c: the logical lines ab, c
\*   "c\na b"  + ""    the lines c, "a b"
\*   ""        + ""    no output
Logs == { << <<"a", "~", "\n", "b", "\n">>, <<"c">> >>,
          << <<"c", "\n", "a", " ", "b">>, <<>> >>,
          << <<>>, <<>> >> }

\* fragment files: "ab\n", "ab\nc\n", "c\na b\n" and "\n" (no fragment)
ErrTexts == { <<"a", "b", "\n">>,
              <<"a", "b", "\n", "c", "\n">>,
              <<"c", "\n", "a", " ", "b", "\n">>,
              <<"\n">> }

\* notebooks: one code cell run first, the same cell run second, and a
\* notebook of one markdown cell
NbCode1 ==
    [metadata |-> {<<"kernel", "python3">>},
     cells |-> << [cell_type |-> "code", source |-> "x = 1", id |-> "c1",
                   execution_count |-> "1", metadata |-> {},
                   outputs |-> << [output_type |-> "execute_result",
                                   execution_count |-> "1", metadata |-> {},
                                   text |-> "1"] >>] >>]
NbCode2 ==
    [metadata |-> {},
     cells |-> << [cell_type |-> "code", source |-> "x = 1", id |-> "c1",
                   execution_count |-> "2", metadata |-> {<<"collapsed", "false">>},
                   outputs |-> << [output_type |-> "execute_result",
                                   execution_count |-> "2", metadata |-> {},
                                   text |-> "1"] >>] >>]
NbText ==
    [metadata |-> {},
     cells |-> << [cell_type |-> "markdown", source |-> "hello", id |-> "m1",
                   metadata |-> {}] >>]
GeneratedNotebooks == {NbCode1, NbText}
ExpectedNotebooks == {NbCode2, NbText}

\* the names of the notebooks of a test; the expected notebook of a generated
\* notebook n is expected/<base>.<n>, kept here under the key n
NbNames == {"a.ipynb", "b.ipynb"}

\* the .ipynb files a directory may hold: a.ipynb is any notebook of contents,
\* b.ipynb is the markdown notebook
NbFiles(contents) ==
    {f \in UNION {[S -> contents] : S \in SUBSET NbNames} :
        "b.ipynb" \in DOMAIN f => f["b.ipynb"] = NbText}

\* the empty directory listing
NoNotebooks == [n \in {} |-> NbText]

\* a directory that does not exist, and a directory holding files
NoDir == [exists |-> FALSE, files |-> NoNotebooks]
Dir(files) == [exists |-> TRUE, files |-> files]

\* the orders in which os.listdir may enumerate the names of S
Listings(S) ==
    {l \in [1..Cardinality(S) -> S] : \A i, j \in DOMAIN l : i # j => l[i] # l[j]}

\* the values of maxfail: --maxfail=0 .. --maxfail=MaxFailArg, or the default
MaxFails == (0..MaxFailArg) \cup {sys_maxsize}

(***************************************************************************)
(* The state of a run.                                                     *)
(***************************************************************************)
VARIABLES
    pc,             \* the position of the program
    argv,           \* the command-line arguments main has not parsed yet
    paths,          \* the positional arguments main has not resolved yet
    exit_status,    \* the exit status of the process, -1 while it runs
    exit_at,        \* the sys.exit that ended it: "usage", "iadd", "summary",
                    \*   or "main" when main returned
    summary,        \* the verdict of the summary line, "" before it is printed
    tex_tests,      \* the list of tests, as file names
    maxfail,        \* FailureCounter.maxfail
    regold,         \* the regold flag
    idx,            \* number of tests the loop has started
    count,          \* FailureCounter.count
    requires,       \* number of entries of the list requires of the test
    r,              \* number of entries of requires already compiled
    out, err,       \* stdout and stderr of the main compile
    expected_err,   \* expected/<base>.err.txt
    expected_txt,   \* expected/<base>.pdf.txt
    expected_nbs,   \* expected/<base>.*.ipynb
    pdf,            \* whether <base>.pdf exists
    out_txt,        \* <base>.pdf.txt
    ipynb_dir,      \* notebooks-<base>/
    generated_ipynbs, \* the list generated_ipynbs of the test
    scratch,        \* whether build artifacts of the test lie in its directory
    req_scratch,    \* the entries of requires whose build artifacts lie about
    hidden,         \* whether hidden files lie under notebooks-<base>/
    failed_ipynbs,  \* the list failed_ipynbs of the test
    printed,        \* the verdicts printed for the test, in order
    steps,          \* the steps of the test executed so far, with their results
    count0,         \* FailureCounter.count when the test started
    found_txt,      \* expected/<base>.pdf.txt as the test found it
    golden_written, \* whether the run has written a file of a directory expected/
    fn_in,          \* the arguments of a helper function called on its own
    fn_out          \* the value that call returned

args == <<tex_tests, maxfail, regold, argv, paths>>
golden == <<expected_err, expected_txt, expected_nbs>>
built == <<out, err, pdf, out_txt, ipynb_dir, generated_ipynbs>>
litter == <<scratch, req_scratch, hidden>>
ending == <<exit_status, exit_at, summary>>
helper == <<fn_in, fn_out>>
vars == <<pc, argv, paths, exit_status, exit_at, summary, tex_tests, maxfail, regold, idx, count,
          requires, r, out, err, expected_err, expected_txt, expected_nbs, pdf,
          out_txt, ipynb_dir, generated_ipynbs, scratch, req_scratch, hidden,
          failed_ipynbs, printed,
          steps, count0, found_txt, golden_written, fn_in, fn_out>>

\* base = tex_file[:-4]
Base(name) == SubSeq(name, 1, Len(name) - Len(TexSuffix))

\* is_fail_test = base.endswith("FAIL")
IsFailTest(name) == EndsWith(Base(name), FailSuffix)

\* tex_file and is_fail_test of the test under way
tex_file == tex_tests[idx]
is_fail_test == IsFailTest(tex_file)

\* the state main hands to run_latex_tests, every argument parsed and resolved
Init ==
    /\ pc = "main"
    /\ argv = <<>>
    /\ paths = <<>>
    /\ exit_status = -1
    /\ exit_at = ""
    /\ summary = ""
    /\ tex_tests \in SeqsUpTo(TexNames, MaxTests)
    /\ maxfail \in MaxFails
    /\ regold \in BOOLEAN
    /\ idx = 0
    /\ count = 0
    /\ requires = 0
    /\ r = 0
    /\ out = <<>>
    /\ err = <<>>
    /\ expected_err = NoFile
    /\ expected_txt = NoFile
    /\ expected_nbs = NoNotebooks
    /\ pdf = FALSE
    /\ out_txt = NoFile
    /\ ipynb_dir = NoDir
    /\ generated_ipynbs = <<>>
    /\ scratch = FALSE
    /\ req_scratch = {}
    /\ hidden = FALSE
    /\ failed_ipynbs = <<>>
    /\ printed = <<>>
    /\ steps = <<>>
    /\ count0 = 0
    /\ found_txt = NoFile
    /\ golden_written = FALSE
    /\ fn_in = <<>>
    /\ fn_out = <<>>

(***************************************************************************)
(* FailureCounter                                                          *)
(***************************************************************************)
\* a ceiling that is exclusive
CeilingReached_exclusive(c, m) == c > m

\* self.count >= self.maxfail
CeilingReached(c, m) == c >= m

\* a counter whose every increment ends the process
RecordFailure_fatal(verdict, cont) ==
    /\ printed' = Append(printed, verdict)
    /\ count' = count + 1
    /\ pc' = "exited"
    /\ exit_status' = 1
    /\ exit_at' = "iadd"
    /\ UNCHANGED summary

\* a verdict is printed and failure_counter += 1 follows: __iadd__ ends the
\* process when the ceiling is reached, else the program goes on at cont
RecordFailure(verdict, cont) ==
    /\ printed' = Append(printed, verdict)
    /\ count' = count + 1
    /\ IF CeilingReached(count + 1, maxfail)
       THEN /\ pc' = "exited"
            /\ exit_status' = 1
            /\ exit_at' = "iadd"
            /\ UNCHANGED summary
       ELSE /\ pc' = cont
            /\ UNCHANGED ending

\* no verdict is printed and the program goes on at cont
GoOn(cont) ==
    /\ pc' = cont
    /\ UNCHANGED <<printed, count, ending>>

\* a step of the test and its result are noted
Note(step) == steps' = Append(steps, step)

(***************************************************************************)
(* main: the command line and the files it names                           *)
(***************************************************************************)
\* "--maxfail=", "--regold", "xsim-files", "test_" and the path separator
MaxfailPrefix == <<"-", "-", "m", "a", "x", "f", "a", "i", "l", "=">>
RegoldFlag == <<"-", "-", "r", "e", "g", "o", "l", "d">>
XsimPrefix == <<"x", "s", "i", "m", "-", "f", "i", "l", "e", "s">>
TestPrefix == <<"t", "e", "s", "t", "_">>
Sep == "/"

\* s.startswith(prefix)
StartsWith(s, prefix) ==
    /\ Len(s) >= Len(prefix)
    /\ SubSeq(s, 1, Len(prefix)) = prefix

\* position of the first c of s at or after i, 0 when there is none
RECURSIVE FirstOf(_, _, _)
FirstOf(s, c, i) ==
    IF i > Len(s) THEN 0
    ELSE IF s[i] = c THEN i
    ELSE FirstOf(s, c, i + 1)

\* s.split(c)
RECURSIVE Split(_, _)
Split(s, c) ==
    LET i == FirstOf(s, c, 1)
    IN  IF i = 0 THEN <<s>>
        ELSE <<SubSeq(s, 1, i - 1)>> \o Split(SubSeq(s, i + 1, Len(s)), c)

\* os.path.join(a, b)
Join(a, b) == a \o <<Sep>> \o b

\* the tree of files the harness is started in:
\*   d/test_t.tex  d/test_tFAIL.tex  d/xsim-files1/test_t.tex  notes.txt
DirD == <<"d">>
DirXsim == Join(DirD, XsimPrefix \o <<"1">>)
TestT == TestPrefix \o NormalTex
TestTFail == TestPrefix \o FailTex
Notes == <<"n", "o", "t", "e", "s", ".", "t", "x", "t">>
Nope == <<"n", "o", "p", "e">>
Files == {Join(DirD, TestT), Join(DirD, TestTFail), Join(DirXsim, TestT), Notes}
Dirs == {DirD, DirXsim}

\* os.path.isfile(path) and os.path.isdir(path)
isfile(path) == path \in Files
isdir(path) == path \in Dirs

\* the characters of the paths, in the order of their code points
CodePoints ==
    <<"-", ".", "/", "1", "A", "F", "I", "L", "_", "d", "e", "f", "i", "l", "m",
      "n", "o", "s", "t", "x">>
Ord(c) == CHOOSE i \in 1..Len(CodePoints) : CodePoints[i] = c

\* s < t, of two strings
RECURSIVE StrLess(_, _)
StrLess(s, t) ==
    IF t = <<>> THEN FALSE
    ELSE IF s = <<>> THEN TRUE
    ELSE IF Head(s) # Head(t) THEN Ord(Head(s)) < Ord(Head(t))
    ELSE StrLess(Tail(s), Tail(t))

\* sorted(S), of a set of strings
sorted(S) ==
    CHOOSE l \in Listings(S) : \A i, j \in DOMAIN l : i < j => StrLess(l[i], l[j])

\* os.path.basename(path)
Basename(path) == LET parts == Split(path, Sep) IN parts[Len(parts)]

\* the file name matches test_*.tex
MatchesTest(name) ==
    /\ Len(name) >= Len(TestPrefix) + Len(TexSuffix)
    /\ StartsWith(name, TestPrefix)
    /\ EndsWith(name, TexSuffix)

\* glob.glob(os.path.join(path, "**", "test_*.tex"), recursive=True)
GlobUnder(path) ==
    {f \in Files : StartsWith(f, path \o <<Sep>>) /\ MatchesTest(Basename(f))}

\* glob.glob("**/test_*.tex", recursive=True)
GlobHere == {f \in Files : MatchesTest(Basename(f))}

\* is_in_xsim_files_dir(path)
is_in_xsim_files_dir(path) ==
    LET parts == Split(path, Sep)
    IN  \E i \in 1..Len(parts) : StartsWith(parts[i], XsimPrefix)

\* [f for f in found_files if not is_in_xsim_files_dir(f)]
Filtered(found_files) == SelectSeq(found_files, LAMBDA f : ~is_in_xsim_files_dir(f))

\* int(s): the value of a string of one digit; anything else raises ValueError
Digits == <<"0", "1", "2", "3", "4", "5", "6", "7", "8", "9">>
IsInt(s) == Len(s) = 1 /\ \E i \in 1..Len(Digits) : Digits[i] = s[1]
IntOf(s) == (CHOOSE i \in 1..Len(Digits) : Digits[i] = s[1]) - 1

\* arg.split("=")[1]
MaxfailValue(arg) == Split(arg, "=")[2]

\* the arguments of the model: the directories, three files, a path that does
\* not exist, the two flags with the values 0 .. MaxFailArg, and a ceiling
\* that is no integer
Arguments ==
    Dirs \cup {Join(DirD, TestT), Join(DirXsim, TestT), Notes, Nope, RegoldFlag}
         \cup {MaxfailPrefix \o <<Digits[n + 1]>> : n \in 0..MaxFailArg}
         \cup {MaxfailPrefix \o <<"x">>}

\* the variables of run_latex_tests, which main leaves alone
run == <<idx, count, requires, r, built, golden, litter, failed_ipynbs, printed,
         steps, count0, found_txt, golden_written>>

\* sys.exit(1) of main
UsageError ==
    /\ pc' = "exited"
    /\ exit_status' = 1
    /\ exit_at' = "usage"
    /\ UNCHANGED summary

\* a resolver that takes any existing file for a test
IsSingleFile_any(path) == isfile(path)

\* os.path.isfile(path) and path.endswith(".tex")
IsSingleFile(path) == isfile(path) /\ EndsWith(path, TexSuffix)

\* one pass of the loop over the arguments: --maxfail=, --regold, or a
\* positional argument
ParseArg ==
    /\ pc = "parse"
    /\ argv # <<>>
    /\ LET arg == Head(argv)
       IN  IF StartsWith(arg, MaxfailPrefix)
           THEN IF IsInt(MaxfailValue(arg))
                THEN /\ maxfail' = IntOf(MaxfailValue(arg))
                     /\ argv' = Tail(argv)
                     /\ UNCHANGED <<pc, regold, paths, ending>>
                ELSE /\ UsageError
                     /\ UNCHANGED <<maxfail, regold, argv, paths>>
           ELSE IF arg = RegoldFlag
                THEN /\ regold' = TRUE
                     /\ argv' = Tail(argv)
                     /\ UNCHANGED <<pc, maxfail, paths, ending>>
                ELSE /\ paths' = Append(paths, arg)
                     /\ argv' = Tail(argv)
                     /\ UNCHANGED <<pc, maxfail, regold, ending>>
    /\ UNCHANGED <<tex_tests, run, helper>>

\* args = new_args, and the test whether a positional argument was given
ParseDone ==
    /\ pc = "parse"
    /\ argv = <<>>
    /\ pc' = IF paths # <<>> THEN "resolve" ELSE "discover"
    /\ UNCHANGED <<args, helper, run, ending>>

\* one pass of the loop over the positional arguments: a single .tex file, a
\* directory searched for test_*.tex files, or anything else
ResolveArg ==
    /\ pc = "resolve"
    /\ paths # <<>>
    /\ LET path == Head(paths)
       IN  IF IsSingleFile(path)
           THEN /\ tex_tests' = Append(tex_tests, path)
                /\ paths' = Tail(paths)
                /\ UNCHANGED <<pc, ending>>
           ELSE IF isdir(path)
                THEN /\ tex_tests' = tex_tests \o Filtered(sorted(GlobUnder(path)))
                     /\ paths' = Tail(paths)
                     /\ UNCHANGED <<pc, ending>>
                ELSE /\ UsageError
                     /\ UNCHANGED <<tex_tests, paths>>
    /\ UNCHANGED <<maxfail, regold, argv, run, helper>>

\* the end of the loop over the positional arguments
ResolveDone ==
    /\ pc = "resolve"
    /\ paths = <<>>
    /\ pc' = "main"
    /\ UNCHANGED <<args, helper, run, ending>>

\* no positional argument: the search of the current directory
Autodiscover ==
    /\ pc = "discover"
    /\ tex_tests' = Filtered(sorted(GlobHere))
    /\ pc' = "main"
    /\ UNCHANGED <<maxfail, regold, argv, paths, run, ending, helper>>

\* the state in which main starts
MainInit ==
    /\ pc = "parse"
    /\ argv \in SeqsUpTo(Arguments, MaxArgs)
    /\ paths = <<>>
    /\ exit_status = -1
    /\ exit_at = ""
    /\ summary = ""
    /\ tex_tests = <<>>
    /\ maxfail = sys_maxsize
    /\ regold = FALSE
    /\ idx = 0
    /\ count = 0
    /\ requires = 0
    /\ r = 0
    /\ out = <<>>
    /\ err = <<>>
    /\ expected_err = NoFile
    /\ expected_txt = NoFile
    /\ expected_nbs = NoNotebooks
    /\ pdf = FALSE
    /\ out_txt = NoFile
    /\ ipynb_dir = NoDir
    /\ generated_ipynbs = <<>>
    /\ scratch = FALSE
    /\ req_scratch = {}
    /\ hidden = FALSE
    /\ failed_ipynbs = <<>>
    /\ printed = <<>>
    /\ steps = <<>>
    /\ count0 = 0
    /\ found_txt = NoFile
    /\ golden_written = FALSE
    /\ fn_in = <<>>
    /\ fn_out = <<>>

(***************************************************************************)
(* main: the call of run_latex_tests                                       *)
(***************************************************************************)
CallRun ==
    /\ pc = "main"
    /\ IF tex_tests # <<>>
       THEN /\ pc' = "loop"
            /\ count' = 0
            /\ UNCHANGED ending
       ELSE /\ pc' = "exited"
            /\ exit_status' = 0
            /\ exit_at' = "main"
            /\ UNCHANGED <<summary, count>>
    /\ UNCHANGED <<args, helper, idx, requires, r, built, golden, litter, failed_ipynbs,
                   printed, steps, count0, found_txt, golden_written>>

(***************************************************************************)
(* run_latex_tests: the loop over the tests                                *)
(***************************************************************************)
\* the head of the loop takes the next test and reads its .requires file. The
\* files of the test are not looked at yet: each comes into the state when the
\* program first looks for it
StartTest ==
    /\ pc = "loop"
    /\ idx < Len(tex_tests)
    /\ idx' = idx + 1
    /\ requires' \in 0..MaxReq
    /\ r' = 0
    /\ expected_err' = NoFile
    /\ expected_txt' = NoFile
    /\ expected_nbs' = NoNotebooks
    /\ out' = <<>>
    /\ err' = <<>>
    /\ pdf' = FALSE
    /\ out_txt' = NoFile
    /\ ipynb_dir' = NoDir
    /\ generated_ipynbs' = <<>>
    /\ scratch' \in BOOLEAN
    /\ req_scratch' = {}
    /\ hidden' = FALSE
    /\ failed_ipynbs' = <<>>
    /\ printed' = <<>>
    /\ steps' = <<>>
    /\ count0' = count
    /\ found_txt' = NoFile
    /\ pc' = "preclean"
    /\ UNCHANGED <<args, helper, count, golden_written, ending>>

\* latexmk -C on the test and on each entry of requires
PreClean ==
    /\ pc = "preclean"
    /\ scratch' = FALSE
    /\ req_scratch' = {}
    /\ pc' = IF requires = 0 THEN "compile" ELSE "prereq"
    /\ UNCHANGED <<args, helper, idx, count, requires, r, built, golden, hidden,
                   failed_ipynbs, printed, steps, count0, found_txt, golden_written, ending>>

\* one pass of the loop that compiles the entries of requires; its continue
\* goes on with the next entry, and after the last entry the loop ends
CompileRequirement ==
    /\ pc = "prereq"
    /\ r' = r + 1
    /\ req_scratch' = req_scratch \cup {r + 1}
    /\ LET cont == IF r + 1 < requires THEN "prereq" ELSE "compile"
       IN  \E ret \in {0, 1} :
              IF ret # 0
              THEN Note("req:1") /\ RecordFailure(FAIL, cont)
              ELSE Note("req:0") /\ GoOn(cont)
    /\ UNCHANGED <<args, helper, idx, requires, built, golden, scratch, hidden,
                   failed_ipynbs, count0, found_txt, golden_written>>

\* if ret == 0, in the branch of an expected-failure test that never fails
ExpectedFailureSucceeded_never(ret) == FALSE

\* if ret == 0, in the branch of an expected-failure test
ExpectedFailureSucceeded(ret) == ret = 0

\* latexmk on the test, and the test of its status
CompileMain ==
    /\ pc = "compile"
    /\ scratch' = TRUE
    /\ \E ret \in {0, 1} :
          /\ Note(IF ret = 0 THEN "main:0" ELSE "main:1")
          /\ IF is_fail_test
             THEN IF ExpectedFailureSucceeded(ret)
                  THEN RecordFailure(FAIL, "loop") /\ UNCHANGED <<out, err>>
                  ELSE /\ \E log \in Logs : out' = log[1] /\ err' = log[2]
                       /\ GoOn("verify_log")
             ELSE IF ret # 0
                  THEN RecordFailure(FAIL, "loop") /\ UNCHANGED <<out, err>>
                  ELSE GoOn("pdf") /\ UNCHANGED <<out, err>>
    /\ UNCHANGED <<args, helper, idx, requires, r, pdf, out_txt, ipynb_dir,
                   generated_ipynbs, golden, req_scratch, hidden, failed_ipynbs,
                   count0, found_txt, golden_written>>

\* [line.strip() for line in exp_f if line.strip()]
ExpectedLines(content) ==
    LET kept == NonBlank(splitlines(content))
    IN  [i \in 1..Len(kept) |-> strip(kept[i])]

\* actual_lines = merge_lines_with_continuation([*out.splitlines(), *err.splitlines()])
ActualLines(o, e) == merge_lines_with_continuation(splitlines(o) \o splitlines(e))

\* os.path.exists of the fragment file: the file the directory expected/ holds
LookForFragments ==
    /\ pc = "verify_log"
    /\ expected_err' \in {NoFile} \cup {File(t) : t \in ErrTexts}
    /\ pc' = "match_log"
    /\ UNCHANGED <<args, helper, idx, count, requires, r, built, expected_txt, expected_nbs,
                   litter, failed_ipynbs, printed, steps, count0, found_txt, golden_written, ending>>

\* the comparison of the log of an expected-failure test with its fragments
VerifyFailureLog ==
    /\ pc = "match_log"
    /\ IF expected_err.exists
       THEN IF check_ordered_subsequence_with_missing(
                   ExpectedLines(expected_err.content), ActualLines(out, err))
            THEN /\ Note("err:match")
                 /\ printed' = Append(printed, XFAIL)
                 /\ pc' = "cleanup"
                 /\ UNCHANGED <<count, ending>>
            ELSE Note("err:nomatch") /\ RecordFailure(FAIL, "loop")
       ELSE Note("err:missing") /\ RecordFailure(FAIL, "loop")
    /\ UNCHANGED <<args, helper, idx, requires, r, built, golden, litter, failed_ipynbs,
                   count0, found_txt, golden_written>>

\* the test that the PDF file was generated
CheckPdf ==
    /\ pc = "pdf"
    /\ \E e \in BOOLEAN :
          /\ pdf' = e
          /\ IF ~e
             THEN Note("pdf:no") /\ RecordFailure(FAIL, "loop")
             ELSE Note("pdf:yes") /\ GoOn("convert")
    /\ UNCHANGED <<args, helper, idx, requires, r, out, err, out_txt, ipynb_dir,
                   generated_ipynbs, golden, litter, failed_ipynbs, count0, found_txt, golden_written>>

\* pdftotext, which writes <base>.pdf.txt when it succeeds
Convert ==
    /\ pc = "convert"
    /\ \E ret \in {0, 1} :
          IF ret # 0
          THEN Note("conv:1") /\ RecordFailure(FAIL, "loop") /\ UNCHANGED out_txt
          ELSE /\ Note("conv:0")
               /\ \E t \in ActualTexts : out_txt' = File(t)
               /\ GoOn("marker")
    /\ UNCHANGED <<args, helper, idx, requires, r, out, err, pdf, ipynb_dir,
                   generated_ipynbs, golden, litter, failed_ipynbs, count0, found_txt, golden_written>>

\* "?? PythonTeX ??" in content
HasMarker(content) == Contains(UnprocessedMarker, content)

\* the search of the unprocessed marker in the converted text
CheckMarker ==
    /\ pc = "marker"
    /\ IF HasMarker(out_txt.content)
       THEN Note("marker:yes") /\ RecordFailure(FAIL, "loop")
       ELSE Note("marker:no") /\ GoOn("text")
    /\ UNCHANGED <<args, helper, idx, requires, r, built, golden, litter, failed_ipynbs,
                   count0, found_txt, golden_written>>

\* a verdict that is FAIL in both modes
Verdict_fail(flag) == FAIL

\* FAIL if not regold else REGOLDED
Verdict(flag) == IF ~flag THEN FAIL ELSE REGOLDED

\* a comparison of the raw texts
TextsDiffer_raw(actual, expected) == actual # expected

\* normalize_text(out_f.read().strip()) != normalize_text(exp_f.read().strip())
TextsDiffer(actual, expected) ==
    normalize_text(strip(actual)) # normalize_text(strip(expected))

\* os.path.exists of the expected text: the file the directory expected/ holds
LookForExpectedText ==
    /\ pc = "text"
    /\ expected_txt' \in {NoFile} \cup {File(t) : t \in ExpectedTexts}
    /\ found_txt' = expected_txt'
    /\ pc' = "compare_text"
    /\ UNCHANGED <<args, helper, idx, count, requires, r, built, expected_err, expected_nbs,
                   litter, failed_ipynbs, printed, steps, count0, golden_written,
                   ending>>

\* a comparison of the texts whose failure does not end the test
CompareText_goes_on ==
    /\ pc = "compare_text"
    /\ IF expected_txt.exists
       THEN IF TextsDiffer(out_txt.content, expected_txt.content)
            THEN /\ Note("text:differs")
                 /\ expected_txt' =
                       IF regold THEN File(out_txt.content) ELSE expected_txt
                 /\ golden_written' = (golden_written \/ regold)
                 /\ RecordFailure(Verdict(regold), "records")
            ELSE /\ Note("text:same")
                 /\ GoOn("records")
                 /\ UNCHANGED <<expected_txt, golden_written>>
       ELSE /\ Note("text:missing")
            /\ expected_txt' = File(out_txt.content)
            /\ golden_written' = TRUE
            /\ RecordFailure(Verdict(regold), "records")
    /\ UNCHANGED <<args, helper, idx, requires, r, built, expected_err, expected_nbs,
                   litter, failed_ipynbs, count0, found_txt>>

\* the comparison of the converted text with the expected text
CompareText ==
    /\ pc = "compare_text"
    /\ IF expected_txt.exists
       THEN IF TextsDiffer(out_txt.content, expected_txt.content)
            THEN /\ Note("text:differs")
                 /\ expected_txt' =
                       IF regold THEN File(out_txt.content) ELSE expected_txt
                 /\ golden_written' = (golden_written \/ regold)
                 /\ RecordFailure(Verdict(regold), "loop")
            ELSE /\ Note("text:same")
                 /\ GoOn("records")
                 /\ UNCHANGED <<expected_txt, golden_written>>
       ELSE /\ Note("text:missing")
            /\ expected_txt' = File(out_txt.content)
            /\ golden_written' = TRUE
            /\ RecordFailure(Verdict(regold), "loop")
    /\ UNCHANGED <<args, helper, idx, requires, r, built, expected_err, expected_nbs,
                   litter, failed_ipynbs, count0, found_txt>>

\* shutil.copy of a notebook to expected/<base>.<name>
CopyIn(files, name, nb) ==
    [n \in (DOMAIN files) \cup {name} |-> IF n = name THEN nb ELSE files[n]]

\* a comparison of the notebooks as they are on disk
NotebooksDiffer_raw(exp_nb, gen_nb) == exp_nb # gen_nb

\* exp_nb != gen_nb, of the normalized notebooks
NotebooksDiffer(exp_nb, gen_nb) ==
    normalize_notebook(exp_nb) # normalize_notebook(gen_nb)

\* a regold flag that promotes nothing
Promote_never(flag, differs) == FALSE

\* a promotion that does not wait for the regold flag
Promote_always(flag, differs) == differs

\* if regold, under if exp_nb != gen_nb
Promote(flag, differs) == differs /\ flag

\* the loop over zip(generated_ipynbs, expected_ipynbs): the names left, the
\* generated files, the expected files and the list failed_ipynbs; a failure
\* is noted as the pair of its kind and the name of the notebook
RECURSIVE CompareLoop(_, _, _, _, _)
CompareLoop(names, generated, expected, failed, flag) ==
    IF names = <<>> THEN [expected |-> expected, failed |-> failed]
    ELSE LET name == Head(names)
             missing == name \notin DOMAIN expected
             expected1 ==
                 IF missing THEN CopyIn(expected, name, generated[name]) ELSE expected
             failed1 ==
                 IF missing THEN Append(failed, <<"missing", name>>) ELSE failed
             differs == NotebooksDiffer(expected1[name], generated[name])
             failed2 ==
                 IF differs THEN Append(failed1, <<"differs", name>>) ELSE failed1
             expected2 ==
                 IF Promote(flag, differs)
                 THEN CopyIn(expected1, name, generated[name])
                 ELSE expected1
         IN  CompareLoop(Tail(names), generated, expected2, failed2, flag)

\* os.path.isdir of notebooks-<base> and the listing of its notebooks, in the
\* order os.listdir gives; the expected notebooks are those the directory
\* expected/ holds
ListNotebooks ==
    /\ pc = "records"
    /\ \E d \in {NoDir} \cup {Dir(f) : f \in NbFiles(GeneratedNotebooks)} :
          /\ ipynb_dir' = d
          /\ IF ~d.exists
             THEN /\ pc' = "pass"
                  /\ UNCHANGED <<generated_ipynbs, expected_nbs>>
             ELSE /\ generated_ipynbs' \in Listings(DOMAIN d.files)
                  /\ expected_nbs' \in NbFiles(ExpectedNotebooks)
                  /\ pc' = "compare_records"
    /\ UNCHANGED <<args, helper, idx, count, requires, r, out, err, pdf, out_txt,
                   expected_err, expected_txt, litter, failed_ipynbs, printed, steps,
                   count0, found_txt, golden_written, ending>>

\* the comparison of the generated notebooks with the expected notebooks
CompareRecords ==
    /\ pc = "compare_records"
    /\ LET res == CompareLoop(generated_ipynbs, ipynb_dir.files, expected_nbs,
                              <<>>, regold)
       IN  /\ expected_nbs' = res.expected
           /\ golden_written' = (golden_written \/ res.expected # expected_nbs)
           /\ failed_ipynbs' = res.failed
           /\ IF Len(res.failed) > 0
              THEN Note("records:failed") /\ RecordFailure(Verdict(regold), "loop")
              ELSE Note("records:same") /\ GoOn("record_set")
    /\ UNCHANGED <<args, helper, idx, requires, r, built, expected_err, expected_txt,
                   litter, count0, found_txt>>

\* a comparison of the sets that overlooks the spurious expected notebooks
CheckRecordSet_missing_only ==
    /\ pc = "record_set"
    /\ IF DOMAIN ipynb_dir.files \ DOMAIN expected_nbs # {}
       THEN Note("record_set:mismatch") /\ RecordFailure(FAIL, "loop")
       ELSE Note("record_set:same") /\ GoOn("nbval")
    /\ UNCHANGED <<args, helper, idx, requires, r, built, golden, litter, failed_ipynbs,
                   count0, found_txt, golden_written>>

\* the comparison of the set of expected notebooks with the generated ones
CheckRecordSet ==
    /\ pc = "record_set"
    /\ LET expected_ipynbs_set == DOMAIN ipynb_dir.files
           current_expected_ipynbs_set == DOMAIN expected_nbs
           missing_expected_ipynbs == expected_ipynbs_set \ current_expected_ipynbs_set
           spurious_expected_ipynbs == current_expected_ipynbs_set \ expected_ipynbs_set
       IN  IF missing_expected_ipynbs # {} \/ spurious_expected_ipynbs # {}
           THEN Note("record_set:mismatch") /\ RecordFailure(FAIL, "loop")
           ELSE Note("record_set:same") /\ GoOn("nbval")
    /\ UNCHANGED <<args, helper, idx, requires, r, built, golden, litter, failed_ipynbs,
                   count0, found_txt, golden_written>>

\* a validator that waits for every generated notebook to have a code cell
RunNbvalNeeded_every(files) ==
    /\ DOMAIN files # {}
    /\ \A n \in DOMAIN files : notebook_has_code_cells(files[n])

\* run_nbval: some generated notebook has a code cell
RunNbvalNeeded(files) == \E n \in DOMAIN files : notebook_has_code_cells(files[n])

\* pytest --nbval in notebooks-<base>, which leaves hidden files there
RunNbval ==
    /\ pc = "nbval"
    /\ IF RunNbvalNeeded(ipynb_dir.files)
       THEN /\ hidden' = TRUE
            /\ \E ret \in {0, 1} :
                  IF ret # 0
                  THEN Note("nbval:1") /\ RecordFailure(FAIL, "loop")
                  ELSE Note("nbval:0") /\ GoOn("rm_hidden")
       ELSE /\ GoOn("rm_hidden")
            /\ UNCHANGED <<hidden, steps>>
    /\ UNCHANGED <<args, helper, idx, requires, r, built, golden, scratch, req_scratch,
                   failed_ipynbs, count0, found_txt, golden_written>>

\* remove_hidden_files_and_directories on notebooks-<base>
RemoveHidden ==
    /\ pc = "rm_hidden"
    /\ hidden' = FALSE
    /\ Note("rm_hidden")
    /\ GoOn("pass")
    /\ UNCHANGED <<args, helper, idx, requires, r, built, golden, scratch, req_scratch,
                   failed_ipynbs, count0, found_txt, golden_written>>

\* print(PASS)
Pass ==
    /\ pc = "pass"
    /\ printed' = Append(printed, PASS)
    /\ pc' = "cleanup"
    /\ UNCHANGED <<args, helper, idx, count, requires, r, built, golden, litter,
                   failed_ipynbs, steps, count0, found_txt, golden_written, ending>>

\* a clean up that forgets the entries of requires
Cleanup_test_only ==
    /\ pc = "cleanup"
    /\ scratch' = FALSE
    /\ Note("cleanup")
    /\ GoOn("loop")
    /\ UNCHANGED <<args, helper, idx, requires, r, built, golden, req_scratch, hidden,
                   failed_ipynbs, count0, found_txt, golden_written>>

\* the clean up that ends the body of the loop: latexmk -C on the test and on
\* each entry of requires
Cleanup ==
    /\ pc = "cleanup"
    /\ scratch' = FALSE
    /\ req_scratch' = {}
    /\ Note("cleanup")
    /\ GoOn("loop")
    /\ UNCHANGED <<args, helper, idx, requires, r, built, golden, hidden, failed_ipynbs,
                   count0, found_txt, golden_written>>

\* a summary that tolerates one failure
SummaryFails_lenient(c) == c > 1

\* failure_counter > 0
SummaryFails(c) == c > 0

\* the test summary, after the last test
Summary ==
    /\ pc = "loop"
    /\ idx = Len(tex_tests)
    /\ IF SummaryFails(count)
       THEN /\ summary' = FAIL
            /\ exit_status' = 1
            /\ exit_at' = "summary"
       ELSE /\ summary' = PASS
            /\ exit_status' = 0
            /\ exit_at' = "main"
    /\ pc' = "exited"
    /\ UNCHANGED <<args, helper, idx, count, requires, r, built, golden, litter,
                   failed_ipynbs, printed, steps, count0, found_txt, golden_written>>

Next ==
    \/ CallRun
    \/ StartTest
    \/ PreClean
    \/ CompileRequirement
    \/ CompileMain
    \/ LookForFragments
    \/ VerifyFailureLog
    \/ CheckPdf
    \/ Convert
    \/ CheckMarker
    \/ LookForExpectedText
    \/ CompareText
    \/ ListNotebooks
    \/ CompareRecords
    \/ CheckRecordSet
    \/ RunNbval
    \/ RemoveHidden
    \/ Pass
    \/ Cleanup
    \/ Summary

Spec == Init /\ [][Next]_vars

\* every call of an external tool returns, and the program takes its next step
\* again and again until the process has exited. This is weak fairness of
\* Next, WF_vars(Next), written without ENABLED: a step of Next is possible
\* exactly while pc # "exited", and the process never leaves "exited"
FairSpec == Spec /\ ([]<><<Next>>_vars \/ <>[](pc = "exited"))

\* main, from the command line to its call of run_latex_tests
MainNext ==
    \/ ParseArg
    \/ ParseDone
    \/ ResolveArg
    \/ ResolveDone
    \/ Autodiscover
    \/ CallRun

MainSpec == MainInit /\ [][MainNext]_vars

\* main takes its next step as long as it has one
MainFairSpec == MainSpec /\ WF_vars(MainNext)

(***************************************************************************)
(* The helper functions called on their own.                               *)
(***************************************************************************)
\* the state of a process that runs no test: every variable but pc and the
\* arguments and result of the helper
Idle ==
    /\ argv = <<>>
    /\ paths = <<>>
    /\ exit_status = -1
    /\ exit_at = ""
    /\ summary = ""
    /\ tex_tests = <<>>
    /\ maxfail = sys_maxsize
    /\ regold = FALSE
    /\ idx = 0
    /\ count = 0
    /\ requires = 0
    /\ r = 0
    /\ out = <<>>
    /\ err = <<>>
    /\ expected_err = NoFile
    /\ expected_txt = NoFile
    /\ expected_nbs = NoNotebooks
    /\ pdf = FALSE
    /\ out_txt = NoFile
    /\ ipynb_dir = NoDir
    /\ generated_ipynbs = <<>>
    /\ scratch = FALSE
    /\ req_scratch = {}
    /\ hidden = FALSE
    /\ failed_ipynbs = <<>>
    /\ printed = <<>>
    /\ steps = <<>>
    /\ count0 = 0
    /\ found_txt = NoFile
    /\ golden_written = FALSE

\* the lines given to the matcher: "a", "ab", "b " and the blank line " "
MatcherLines == {<<"a">>, <<"a", "b">>, <<"b", " ">>, <<" ">>}

\* a call of check_ordered_subsequence_with_missing on lists of such lines
MatcherInit ==
    /\ pc = "matcher"
    /\ fn_in \in [expected_lines : SeqsUpTo(MatcherLines, MaxFragments),
                  actual_lines : SeqsUpTo(MatcherLines, MaxLines)]
    /\ fn_out = <<>>
    /\ Idle

MatcherCall ==
    /\ pc = "matcher"
    /\ fn_out' = check_ordered_subsequence_with_missing(
                     fn_in.expected_lines, fn_in.actual_lines)
    /\ pc' = "matcher_returned"
    /\ UNCHANGED <<fn_in, args, run, ending>>

MatcherNext == MatcherCall

MatcherSpec == MatcherInit /\ [][MatcherNext]_vars

\* the characters of the texts given to normalize_text
TextChars == {"a", " ", "\t", "\n"}

\* the text s with the character c inserted after its first i characters
Inserted(s, i, c) == SubSeq(s, 1, i) \o <<c>> \o SubSeq(s, i + 1, Len(s))

\* two calls of normalize_text: on a text, and on the same text with one
\* whitespace character more
NormalizeInit ==
    /\ pc = "normalize"
    /\ \E s \in SeqsUpTo(TextChars, MaxText) :
          \E i \in 0..Len(s), c \in Whitespace :
              fn_in = [text |-> s, at |-> i, ws |-> c]
    /\ fn_out = <<>>
    /\ Idle

NormalizeCall ==
    /\ pc = "normalize"
    /\ fn_out' = [text |-> normalize_text(fn_in.text),
                  other |-> normalize_text(Inserted(fn_in.text, fn_in.at, fn_in.ws))]
    /\ pc' = "normalize_returned"
    /\ UNCHANGED <<fn_in, args, run, ending>>

NormalizeNext == NormalizeCall

NormalizeSpec == NormalizeInit /\ [][NormalizeNext]_vars

\* the outputs of the code cells given to normalize_notebook: the value 1,
\* the value 1 of a later execution, and the value 2
Output1 ==
    [output_type |-> "execute_result", execution_count |-> "1", metadata |-> {},
     text |-> "1"]
Output1Later ==
    [output_type |-> "execute_result", execution_count |-> "2",
     metadata |-> {<<"scrolled", "true">>}, text |-> "1"]
Output2 ==
    [output_type |-> "execute_result", execution_count |-> "1", metadata |-> {},
     text |-> "2"]

\* a code cell
CodeCell(source, id, execution_count, metadata, outputs) ==
    [cell_type |-> "code", source |-> source, id |-> id,
     execution_count |-> execution_count, metadata |-> metadata, outputs |-> outputs]

\* the cells given to normalize_notebook: a code cell, the same cell of a
\* later execution, the cell with its outputs in the other order, a cell of
\* another source, the cell under another id, and a markdown cell
NotebookCells ==
    { CodeCell("x = 1", "c1", "1", {}, <<Output1, Output2>>),
      CodeCell("x = 1", "c1", "2", {<<"collapsed", "false">>}, <<Output1Later, Output2>>),
      CodeCell("x = 1", "c1", "1", {}, <<Output2, Output1>>),
      CodeCell("y = 2", "c1", "1", {}, <<Output1, Output2>>),
      CodeCell("x = 1", "c2", "1", {}, <<Output1, Output2>>),
      [cell_type |-> "markdown", source |-> "hello", id |-> "m1", metadata |-> {}] }

\* the notebooks given to normalize_notebook, every key nbformat requires
\* present
Notebooks ==
    {[metadata |-> m, cells |-> c] :
        m \in {{}, {<<"kernel", "python3">>}}, c \in SeqsUpTo(NotebookCells, MaxCells)}

\* a call that works on the notebook of its caller
ArgumentAfter_aliased(nb) == normalize_notebook(nb)

\* nb = copy.deepcopy(nb): the notebook of the caller after the call
ArgumentAfter(nb) == nb

\* calls of normalize_notebook: on a notebook, on another notebook, and on the
\* result of the first call
NotebookInit ==
    /\ pc = "notebook"
    /\ fn_in \in [nb : Notebooks, other : Notebooks]
    /\ fn_out = <<>>
    /\ Idle

NotebookCall ==
    /\ pc = "notebook"
    /\ fn_out' = [nb |-> normalize_notebook(fn_in.nb),
                  other |-> normalize_notebook(fn_in.other),
                  again |-> normalize_notebook(normalize_notebook(fn_in.nb)),
                  argument |-> ArgumentAfter(fn_in.nb)]
    /\ pc' = "notebook_returned"
    /\ UNCHANGED <<fn_in, args, run, ending>>

NotebookNext == NotebookCall

NotebookSpec == NotebookInit /\ [][NotebookNext]_vars

\* the lines given to merge_lines_with_continuation: "a~", "b", "b " with a
\* trailing space, "~" alone, and "a~ " with a space after the marker
MergerLines ==
    {<<"a", "~">>, <<"b">>, <<"b", " ">>, <<"~">>, <<"a", "~", " ">>}

\* a call of merge_lines_with_continuation on a list of such lines
MergerInit ==
    /\ pc = "merger"
    /\ fn_in \in [lines : SeqsUpTo(MergerLines, MaxMergeLines)]
    /\ fn_out = <<>>
    /\ Idle

MergerCall ==
    /\ pc = "merger"
    /\ fn_out' = [merged_lines |-> merge_lines_with_continuation(fn_in.lines)]
    /\ pc' = "merger_returned"
    /\ UNCHANGED <<fn_in, args, run, ending>>

MergerNext == MergerCall

MergerSpec == MergerInit /\ [][MergerNext]_vars

(***************************************************************************)
(* Vocabulary of the properties.                                           *)
(***************************************************************************)
\* the step was executed in the test under way
HasStep(step) == \E i \in 1..Len(steps) : steps[i] = step

\* the verdict was printed for the test under way
HasPrinted(verdict) == \E i \in 1..Len(printed) : printed[i] = verdict

\* the last verdict printed for the test under way
LastPrinted == IF printed = <<>> THEN "" ELSE printed[Len(printed)]

\* the test under way has come to its end and the loop is at its head again
TestOver == idx > 0 /\ pc = "loop"

C2_ExitStatus ==
    pc = "exited" =>
        /\ exit_status \in {0, 1}
        /\ (exit_status = 0) <=> (count = 0)
        /\ tex_tests = <<>> => exit_status = 0

\* a run of two tests that ends with status 1 through the summary
C2_Witness ==
    /\ pc = "exited"
    /\ exit_at = "summary"
    /\ exit_status = 1
    /\ count = 1
    /\ idx = 2

(***************************************************************************)
(* C3. Tests are started one at a time, in the order of the list, and      *)
(* only from the head of the loop; the process ends only when the ceiling  *)
(* is reached or when every test of the list was started; and, every call  *)
(* of an external tool returning, the process does end.                    *)
(***************************************************************************)
C3_EveryTestRuns ==
    /\ [][idx' = idx \/ (idx' = idx + 1 /\ pc = "loop" /\ idx < Len(tex_tests))]_vars
    /\ [](pc = "exited" => count >= maxfail \/ idx = Len(tex_tests))
    /\ <>(pc = "exited")

\* the first test failed below the ceiling and the second test was started
C3_Witness ==
    /\ idx = 2
    /\ count0 >= 1
    /\ count0 < maxfail
    /\ pc = "preclean"

\* the test under way has ended: the loop is at its head again, or the
\* process has exited during the test or right after it
TestEnded == idx > 0 /\ pc \in {"loop", "exited"}

(***************************************************************************)
(* C4. Once the compile of a prerequisite of a test has returned a         *)
(* non-zero status, the test is FAIL and none of its other steps runs:     *)
(* the main document is not compiled and nothing is verified, no PASS or   *)
(* XFAIL is printed, and the clean up of the test still runs.              *)
(***************************************************************************)
C4_PrereqFailureSkipsTest ==
    (idx > 0 /\ HasStep("req:1")) =>
        /\ \A i \in 1..Len(steps) : steps[i] \in {"req:0", "req:1", "cleanup"}
        /\ ~HasPrinted(PASS)
        /\ ~HasPrinted(XFAIL)
        /\ LastPrinted = FAIL
        /\ TestOver => HasStep("cleanup")

(***************************************************************************)
(* C5. As stated: when a test has come to its end without the ceiling      *)
(* ending the run, the clean up was executed whatever the verdict, and     *)
(* neither build artifacts nor hidden files are left.                      *)
(***************************************************************************)
C5_CleanupWhateverTheOutcome ==
    TestOver =>
        /\ HasStep("cleanup")
        /\ ~scratch
        /\ req_scratch = {}
        /\ ~hidden

(***************************************************************************)
(* C5, amended. When a test has come to its end without the ceiling        *)
(* ending the run, the clean up was executed if and only if the last       *)
(* verdict of the test is PASS or XFAIL. After it no build artifact of     *)
(* the test or of its prerequisites and no hidden file is left; without    *)
(* it the build artifacts of the test are left, and so are the hidden      *)
(* files when the validator failed.                                        *)
(***************************************************************************)
C5_CleanupAfterPassOrXfail ==
    TestOver =>
        /\ HasStep("cleanup") <=> LastPrinted \in {PASS, XFAIL}
        /\ HasStep("cleanup") => ~scratch /\ req_scratch = {} /\ ~hidden
        /\ ~HasStep("cleanup") => scratch
        /\ HasStep("nbval:1") => hidden

\* a test with a prerequisite passed after the validator ran, and was cleaned
C5_Witness ==
    /\ TestOver
    /\ LastPrinted = PASS
    /\ requires >= 1
    /\ HasStep("nbval:0")
    /\ HasStep("cleanup")

OrderedOccurrence(e, a) ==
    \E p \in [1..Len(e) -> 1..Len(a)] :
        /\ \A j, k \in 1..Len(e) : j < k => p[j] < p[k]
        /\ \A j \in 1..Len(e) : Contains(e[j], a[p[j]])

\* the non-blank lines of a sequence of lines, without their whitespace
Squeezed(lines) ==
    LET kept == SelectSeq(lines, LAMBDA l : JoinSplit(l) # <<>>)
    IN  [i \in 1..Len(kept) |-> JoinSplit(kept[i])]

C7_ExpectedFailureLog ==
    [][pc = "match_log" =>
          IF /\ expected_err.exists
             /\ OrderedOccurrence(
                    Squeezed(splitlines(expected_err.content)),
                    Squeezed(merge_lines_with_continuation(
                                 splitlines(out) \o splitlines(err))))
          THEN /\ printed' = Append(printed, XFAIL)
               /\ count' = count
               /\ pc' = "cleanup"
          ELSE /\ printed' = Append(printed, FAIL)
               /\ count' = count + 1
               /\ pc' \in {"loop", "exited"}]_vars

\* XFAIL on two fragments, the first of which lies across a continuation
C7_Witness ==
    /\ idx > 0
    /\ LastPrinted = XFAIL
    /\ count = count0
    /\ expected_err.exists
    /\ Len(ExpectedLines(expected_err.content)) = 2
    /\ Len(splitlines(out)) = 2
    /\ Len(splitlines(err)) = 1

(***************************************************************************)
(* C8. A normal test without prerequisites and without record directory,   *)
(* once ended: PASS was printed and the failure count is as it was when    *)
(* the test started if and only if the compile returned 0, the PDF         *)
(* exists, the conversion returned 0, the converted text is free of the    *)
(* unprocessed marker, the expected text was there, and the normalized     *)
(* converted text equals the normalized expected text; in every other      *)
(* case the count has grown by exactly 1 and PASS was not printed.         *)
(***************************************************************************)
C8_NormalTestPassesIff ==
    (TestEnded /\ ~is_fail_test /\ requires = 0 /\ ~ipynb_dir.exists) =>
        IF /\ HasStep("main:0")
           /\ pdf
           /\ HasStep("conv:0")
           /\ out_txt.exists
           /\ ~Contains(UnprocessedMarker, out_txt.content)
           /\ found_txt.exists
           /\ normalize_text(strip(out_txt.content))
                = normalize_text(strip(found_txt.content))
        THEN printed = <<PASS>> /\ count = count0
        ELSE count = count0 + 1 /\ ~HasPrinted(PASS)

\* a test passed whose converted text differs from the expected text by
\* whitespace alone
C8_Witness ==
    /\ TestOver
    /\ ~is_fail_test
    /\ requires = 0
    /\ ~ipynb_dir.exists
    /\ printed = <<PASS>>
    /\ out_txt.content # found_txt.content

(***************************************************************************)
(* C9. When the text comparison of a normal test finds no expected text:   *)
(* FAIL is printed in strict mode and REGOLDED in regold mode, the         *)
(* failure count grows by 1, and from then on to the end of the test the   *)
(* expected text exists and holds the converted text, in both modes.       *)
(***************************************************************************)
C9_MissingExpectedText ==
    /\ [][(pc = "compare_text" /\ ~expected_txt.exists) =>
             /\ printed' = Append(printed, IF regold THEN REGOLDED ELSE FAIL)
             /\ count' = count + 1
             /\ expected_txt' = File(out_txt.content)
             /\ pc' \in {"loop", "exited"}]_vars
    /\ [](idx > 0 /\ HasStep("marker:no") /\ pc \notin {"text", "compare_text"}
            /\ ~found_txt.exists =>
             /\ expected_txt.exists
             /\ expected_txt.content = out_txt.content
             /\ LastPrinted = IF regold THEN REGOLDED ELSE FAIL
             /\ pc \in {"loop", "exited"})

\* a strict run created the expected text of a test and went on
C9_Witness ==
    /\ TestOver
    /\ ~regold
    /\ ~found_txt.exists
    /\ expected_txt = File(out_txt.content)
    /\ LastPrinted = FAIL
    /\ count = count0 + 1

(***************************************************************************)
(* C10. In regold mode, a text comparison that fails (expected text        *)
(* missing or different) and a record comparison that fails (expected      *)
(* record missing or different) write the actual output as the new         *)
(* expectation, print REGOLDED, and add 1 to the failure count; a run      *)
(* that wrote an expected file ends with exit status 1.                    *)
(***************************************************************************)
\* the generated notebook n has no expected counterpart, or one that differs
RecordFails(n) ==
    \/ n \notin DOMAIN expected_nbs
    \/ normalize_notebook(expected_nbs[n]) # normalize_notebook(ipynb_dir.files[n])

C10_RegoldPromotes ==
    /\ [][(/\ regold
           /\ pc = "compare_text"
           /\ \/ ~expected_txt.exists
              \/ normalize_text(strip(out_txt.content))
                   # normalize_text(strip(expected_txt.content))) =>
             /\ expected_txt' = File(out_txt.content)
             /\ printed' = Append(printed, REGOLDED)
             /\ count' = count + 1]_vars
    /\ [][(/\ regold
           /\ pc = "compare_records"
           /\ \E n \in DOMAIN ipynb_dir.files : RecordFails(n)) =>
             /\ \A n \in DOMAIN ipynb_dir.files :
                   RecordFails(n) =>
                       /\ n \in DOMAIN expected_nbs'
                       /\ expected_nbs'[n] = ipynb_dir.files[n]
             /\ printed' = Append(printed, REGOLDED)
             /\ count' = count + 1]_vars
    /\ [](regold /\ golden_written /\ pc = "exited" => exit_status = 1)

\* a regold run replaced an expected notebook that differed and ended with
\* status 1 through the summary
C10_Witness ==
    /\ regold
    /\ pc = "exited"
    /\ exit_at = "summary"
    /\ exit_status = 1
    /\ golden_written
    /\ HasStep("records:failed")
    /\ LastPrinted = REGOLDED
    /\ \E i \in 1..Len(failed_ipynbs) : failed_ipynbs[i][1] = "differs"

(***************************************************************************)
(* C11. Without the regold flag no step of a test changes an expected      *)
(* file that exists: the expected text, each expected record and the       *)
(* fragment file keep their content. The only writes of a strict run       *)
(* create an expected text or an expected record that was absent; the      *)
(* fragment file is never written, in either mode.                         *)
(***************************************************************************)
C11_StrictKeepsGoldens ==
    /\ [][(~regold /\ idx' = idx) =>
             /\ expected_txt.exists => expected_txt' = expected_txt
             /\ expected_err.exists => expected_err' = expected_err
             /\ \A n \in DOMAIN expected_nbs :
                   /\ n \in DOMAIN expected_nbs'
                   /\ expected_nbs'[n] = expected_nbs[n]]_vars
    /\ [][(idx' = idx /\ pc # "verify_log") => expected_err' = expected_err]_vars

\* a strict run that wrote no expected file: its second test found a record
\* that differs from the expected one and left the expected record as it was
C11_Witness ==
    /\ ~regold
    /\ ~golden_written
    /\ TestOver
    /\ idx = 2
    /\ count = 2
    /\ HasStep("records:failed")
    /\ \E n \in DOMAIN expected_nbs :
          /\ n \in DOMAIN ipynb_dir.files
          /\ expected_nbs[n] # ipynb_dir.files[n]
          /\ NotebooksDiffer(expected_nbs[n], ipynb_dir.files[n])

(***************************************************************************)
(* C12. The record comparison of a normal test, over the generated records *)
(* G: the list of noted failures it leaves holds exactly one entry for     *)
(* each record of G that has no expected counterpart or whose normalized   *)
(* form differs from its counterpart, and no other entry, so that a record *)
(* equal to its counterpart is not noted when a sibling is; a record with  *)
(* no counterpart is copied in as its counterpart in both modes; and when  *)
(* the list is not empty the comparison adds exactly 1 to the failure      *)
(* count, whatever the number of entries, else nothing.                    *)
(***************************************************************************)
\* the number of failures the list l notes for the record n
NotedFor(l, n) == Cardinality({i \in 1..Len(l) : l[i][2] = n})

C12_RecordFailuresNoted ==
    [][pc = "compare_records" =>
          /\ \A i \in 1..Len(failed_ipynbs') :
                failed_ipynbs'[i][2] \in DOMAIN ipynb_dir.files
          /\ \A n \in DOMAIN ipynb_dir.files :
                /\ NotedFor(failed_ipynbs', n) = IF RecordFails(n) THEN 1 ELSE 0
                /\ n \notin DOMAIN expected_nbs =>
                      /\ n \in DOMAIN expected_nbs'
                      /\ expected_nbs'[n] = ipynb_dir.files[n]
          /\ IF failed_ipynbs' # <<>>
             THEN /\ count' = count + 1
                  /\ printed' = Append(printed, IF regold THEN REGOLDED ELSE FAIL)
                  /\ pc' \in {"loop", "exited"}
             ELSE /\ count' = count
                  /\ printed' = printed
                  /\ pc' = "record_set"]_vars

\* of two generated records the one without counterpart was noted and copied
\* in by a strict run, and the other, equal to its counterpart but for the
\* fields the normalizer clears, was not noted
C12_Witness ==
    /\ ~regold
    /\ HasStep("records:failed")
    /\ count = count0 + 1
    /\ DOMAIN ipynb_dir.files = {"a.ipynb", "b.ipynb"}
    /\ failed_ipynbs = << <<"missing", "b.ipynb">> >>
    /\ expected_nbs["b.ipynb"] = ipynb_dir.files["b.ipynb"]
    /\ expected_nbs["a.ipynb"] # ipynb_dir.files["a.ipynb"]

\* the per-record comparison of the test under way was carried out
RecordsCompared == HasStep("records:failed") \/ HasStep("records:same")

\* the expected record names of the test are not the generated record names
RecordSetsDiffer == DOMAIN expected_nbs # DOMAIN ipynb_dir.files

(***************************************************************************)
(* C13. As stated: whenever, after the per-record comparison of a test,    *)
(* the set of expected record names is not the set of generated record     *)
(* names, the record-set mismatch is reported as a failure of the test,    *)
(* whether or not a per-record comparison failed.                          *)
(***************************************************************************)
C13_RecordSetMismatchAlwaysReported ==
    (TestEnded /\ RecordsCompared /\ RecordSetsDiffer) =>
        HasStep("record_set:mismatch")

(***************************************************************************)
(* C13, amended. The set of expected record names is compared with the set *)
(* of generated record names only when the per-record comparison noted no  *)
(* failure: then a difference of the sets, which can only be an expected   *)
(* record without generated counterpart, is reported as FAIL in both       *)
(* modes, adds 1 to the failure count and ends the test before the         *)
(* validator. When the per-record comparison noted a failure the test      *)
(* ends on that failure and the sets are not compared. Either way a test   *)
(* whose sets differ after the per-record comparison is never PASS.        *)
(***************************************************************************)
C13_RecordSetComparedAfterCleanRecords ==
    /\ [][pc = "record_set" =>
             IF RecordSetsDiffer
             THEN /\ steps' = Append(steps, "record_set:mismatch")
                  /\ printed' = Append(printed, FAIL)
                  /\ count' = count + 1
                  /\ pc' \in {"loop", "exited"}
             ELSE /\ steps' = Append(steps, "record_set:same")
                  /\ printed' = printed
                  /\ count' = count
                  /\ pc' = "nbval"]_vars
    /\ [](pc = "record_set" =>
             /\ HasStep("records:same")
             /\ DOMAIN ipynb_dir.files \subseteq DOMAIN expected_nbs)
    /\ [](idx > 0 /\ HasStep("records:failed") =>
             /\ pc \in {"loop", "exited"}
             /\ ~HasStep("record_set:mismatch")
             /\ ~HasStep("record_set:same"))
    /\ [](idx > 0 /\ RecordsCompared /\ RecordSetsDiffer =>
             /\ ~HasPrinted(PASS)
             /\ ~HasStep("nbval:0")
             /\ ~HasStep("nbval:1"))

\* a regold run whose records equal their counterparts reported FAIL for an
\* expected record without generated counterpart
C13_Witness ==
    /\ regold
    /\ TestOver
    /\ HasStep("records:same")
    /\ HasStep("record_set:mismatch")
    /\ LastPrinted = FAIL
    /\ count = count0 + 1
    /\ DOMAIN ipynb_dir.files = {"a.ipynb"}
    /\ DOMAIN expected_nbs = {"a.ipynb", "b.ipynb"}

\* some generated record of the test under way holds a code cell
AnyCodeCell ==
    \E n \in DOMAIN ipynb_dir.files :
        \E i \in 1..Len(ipynb_dir.files[n].cells) :
            ipynb_dir.files[n].cells[i].cell_type = "code"

\* the validator was invoked in the test under way
ValidatorInvoked == HasStep("nbval:0") \/ HasStep("nbval:1")

(***************************************************************************)
(* C14. A normal test with a record directory: when a generated record     *)
(* holds a code cell, PASS is printed only after the validator was         *)
(* invoked and returned 0, and a validator that returns a non-zero status  *)
(* gives FAIL and adds 1 to the failure count; when no generated record    *)
(* holds a code cell the validator is not invoked.                         *)
(***************************************************************************)
C14_ValidatorWhenCodeCells ==
    /\ [](idx > 0 /\ ipynb_dir.exists /\ AnyCodeCell /\ HasPrinted(PASS) =>
             HasStep("nbval:0") /\ ~HasStep("nbval:1"))
    /\ [][pc = "nbval" /\ AnyCodeCell =>
             \/ /\ steps' = Append(steps, "nbval:0")
                /\ printed' = printed
                /\ count' = count
                /\ pc' = "rm_hidden"
             \/ /\ steps' = Append(steps, "nbval:1")
                /\ printed' = Append(printed, FAIL)
                /\ count' = count + 1
                /\ pc' \in {"loop", "exited"}]_vars
    /\ [](idx > 0 /\ ~AnyCodeCell => ~ValidatorInvoked /\ ~hidden)

\* a test passed after the validator ran on two records, one of which has no
\* code cell
C14_Witness ==
    /\ TestOver
    /\ LastPrinted = PASS
    /\ HasStep("nbval:0")
    /\ DOMAIN ipynb_dir.files = {"a.ipynb", "b.ipynb"}
    /\ ~notebook_has_code_cells(ipynb_dir.files["b.ipynb"])

\* the path lies under a directory whose name begins with the reserved prefix
UnderXsimDir(path) ==
    LET parts == Split(path, Sep)
    IN  \E i \in 1..(Len(parts) - 1) : StartsWith(parts[i], XsimPrefix)

(***************************************************************************)
(* C15. Whatever the arguments (none, directories, explicit files), the    *)
(* list of tests main resolves holds no path that lies under a directory   *)
(* whose name begins with xsim-files.                                      *)
(***************************************************************************)
C15_NoTestUnderXsimDir ==
    \A i \in 1..Len(tex_tests) : ~UnderXsimDir(tex_tests[i])

\* the argument is a usage error: a ceiling that is no integer, or a
\* positional argument that is neither an existing .tex file nor an existing
\* directory
BadArgument(arg) ==
    IF StartsWith(arg, MaxfailPrefix)
    THEN ~IsInt(MaxfailValue(arg))
    ELSE /\ arg # RegoldFlag
         /\ ~(arg \in Files /\ EndsWith(arg, TexSuffix))
         /\ arg \notin Dirs

\* a usage error is among the arguments main has not dealt with
PendingBad ==
    \/ \E i \in 1..Len(argv) : BadArgument(argv[i])
    \/ \E i \in 1..Len(paths) : BadArgument(paths[i])

(***************************************************************************)
(* C16. A usage error among the arguments, wherever it stands, ends the    *)
(* process with status 1 before any test is run: main never gets past the  *)
(* bad argument, run_latex_tests is not called, the only exit is the       *)
(* usage exit with status 1, and that exit does come.                      *)
(***************************************************************************)
C16_UsageErrorEndsMain ==
    /\ [][PendingBad => PendingBad']_vars
    /\ [](PendingBad =>
             /\ \/ pc \in {"parse", "resolve"}
                \/ pc = "exited" /\ exit_status = 1 /\ exit_at = "usage"
             /\ idx = 0
             /\ steps = <<>>)
    /\ (PendingBad ~> (pc = "exited" /\ exit_status = 1))

\* a path that does not exist, given after a valid file: the file was
\* resolved, and the process ended on the bad path
C16_Witness ==
    /\ pc = "exited"
    /\ exit_status = 1
    /\ exit_at = "usage"
    /\ tex_tests = <<Join(DirD, TestT)>>
    /\ paths = <<Nope>>

(***************************************************************************)
(* C17. check_ordered_subsequence_with_missing returns true exactly when,  *)
(* blank entries discarded and whitespace removed on both sides, there are *)
(* strictly increasing positions in the actual lines such that the j-th    *)
(* fragment is a substring of the line at the j-th position; it returns    *)
(* true when no fragment is left.                                          *)
(***************************************************************************)
C17_MatcherDecidesOrderedOccurrence ==
    pc = "matcher_returned" =>
        /\ fn_out = OrderedOccurrence(Squeezed(fn_in.expected_lines),
                                      Squeezed(fn_in.actual_lines))
        /\ Squeezed(fn_in.expected_lines) = <<>> => fn_out = TRUE

\* two fragments found in the first and the last of three lines, across a
\* blank line
C17_Witness ==
    /\ pc = "matcher_returned"
    /\ fn_in.expected_lines = << <<"a">>, <<"b", " ">> >>
    /\ fn_in.actual_lines = << <<"a", "b">>, <<" ">>, <<"b", " ">> >>
    /\ fn_out = TRUE

(***************************************************************************)
(* C18. A test adds at most 1 to the failure count, and a test that added  *)
(* to the count prints neither PASS nor XFAIL; a run that reaches its      *)
(* summary has therefore counted one failure for each test that ended      *)
(* FAIL or REGOLDED.                                                       *)
(***************************************************************************)
C18_AtMostOneFailurePerTest ==
    idx > 0 =>
        /\ count <= count0 + 1
        /\ count > count0 => ~HasPrinted(PASS) /\ ~HasPrinted(XFAIL)

\* the text comparison of the test under way failed
TextFailed == HasStep("text:differs") \/ HasStep("text:missing")

(***************************************************************************)
(* C19. In either mode a failed text comparison ends the test: the record  *)
(* directory is not listed, no expected record is looked for, created or   *)
(* modified, no record is compared and the validator is not invoked; under *)
(* regold the step promotes the expected text and nothing else.            *)
(***************************************************************************)
C19_TextFailureSkipsRecords ==
    /\ [][(/\ pc = "compare_text"
           /\ \/ ~expected_txt.exists
              \/ normalize_text(strip(out_txt.content))
                   # normalize_text(strip(expected_txt.content))) =>
             /\ pc' \in {"loop", "exited"}
             /\ UNCHANGED <<expected_nbs, ipynb_dir, generated_ipynbs, failed_ipynbs,
                            hidden, expected_err>>
             /\ regold => expected_txt' = File(out_txt.content)]_vars
    /\ [](idx > 0 /\ TextFailed =>
             /\ pc \in {"loop", "exited"}
             /\ ~ipynb_dir.exists
             /\ expected_nbs = NoNotebooks
             /\ ~RecordsCompared
             /\ ~ValidatorInvoked
             /\ ~HasPrinted(PASS))

\* a regold run promoted the expected text of a test that differed, and the
\* test ended there
C19_Witness ==
    /\ regold
    /\ TestOver
    /\ HasStep("text:differs")
    /\ found_txt.exists
    /\ found_txt.content # out_txt.content
    /\ expected_txt = File(out_txt.content)
    /\ LastPrinted = REGOLDED
    /\ expected_nbs = NoNotebooks

(***************************************************************************)
(* C20. As stated: two texts that differ by one whitespace character       *)
(* (space, tab or newline) inserted or removed have equal normal forms;    *)
(* texts that differ by several follow one character at a time.            *)
(***************************************************************************)
C20_WhitespaceNeverMatters ==
    pc = "normalize_returned" => fn_out.text = fn_out.other

\* the inserted character is a newline that parts two characters, neither of
\* them whitespace, of one line of the text
SplitsLine ==
    /\ fn_in.ws = "\n"
    /\ \E j \in 1..fn_in.at :
          /\ fn_in.text[j] \notin Whitespace
          /\ \A k \in j..fn_in.at : fn_in.text[k] # "\n"
    /\ \E j \in (fn_in.at + 1)..Len(fn_in.text) :
          /\ fn_in.text[j] \notin Whitespace
          /\ \A k \in (fn_in.at + 1)..j : fn_in.text[k] # "\n"

(***************************************************************************)
(* C20, amended. Two texts that differ by one inserted or removed          *)
(* whitespace character have equal normal forms, unless that character is  *)
(* a newline standing between two non-whitespace characters of one line:   *)
(* spaces and tabs anywhere, blank lines and newlines next to the          *)
(* whitespace at the ends of a line do not matter, while a line break      *)
(* inside the content of a line does, and then the normal forms differ.    *)
(***************************************************************************)
C20_WhitespaceButLineBreaks ==
    pc = "normalize_returned" =>
        (fn_out.text = fn_out.other <=> ~SplitsLine)

\* a newline put between two lines, which makes a blank line of it, left the
\* normal form of two lines as it was
C20_Witness ==
    /\ pc = "normalize_returned"
    /\ fn_in.ws = "\n"
    /\ Len(fn_out.text) = 2
    /\ fn_out.text = fn_out.other

\* the dict f without the keys of the set volatile
Without(f, volatile) == [k \in (DOMAIN f) \ volatile |-> f[k]]

\* a notebook with its volatile fields left out: the top-level metadata, the
\* metadata and execution counter of every cell and of every output
CellContent(cell) ==
    LET kept == Without(cell, {"metadata", "execution_count"})
    IN  [k \in DOMAIN kept |->
            IF k = "outputs"
            THEN [i \in 1..Len(kept[k]) |->
                     Without(kept[k][i], {"metadata", "execution_count"})]
            ELSE kept[k]]
Content(nb) ==
    LET kept == Without(nb, {"metadata"})
    IN  [k \in DOMAIN kept |->
            IF k = "cells"
            THEN [i \in 1..Len(kept[k]) |-> CellContent(kept[k][i])]
            ELSE kept[k]]

Marked(line) == line # <<>> /\ line[Len(line)] = "~"

\* the line without its marker
Unmarked(line) == IF Marked(line) THEN SubSeq(line, 1, Len(line) - 1) ELSE line

\* the positions at which a logical line of L ends: each unmarked line, and
\* the last line of the input
RunEnds(L) == {i \in 1..Len(L) : ~Marked(L[i]) \/ i = Len(L)}

\* the lines i..j of L joined with their markers taken off and no separator
RECURSIVE Joined(_, _, _)
Joined(L, i, j) == IF i > j THEN <<>> ELSE Unmarked(L[i]) \o Joined(L, i + 1, j)

\* the logical lines of L, in the order of the input: each maximal run of
\* marked lines joined with the unmarked line that follows it, an unmarked
\* line that follows no run as it is, and the run the input ends in
LogicalLines(L) ==
    LET ends == RunEnds(L)
        EndOf(k) == CHOOSE e \in ends : Cardinality({x \in ends : x <= e}) = k
        StartOf(k) == IF k = 1 THEN 1 ELSE EndOf(k - 1) + 1
    IN  [k \in 1..Cardinality(ends) |-> Joined(L, StartOf(k), EndOf(k))]

(***************************************************************************)
(* C22. As stated: merge_lines_with_continuation returns the logical lines *)
(* of its input in input order, each run of marked lines joined with the   *)
(* next unmarked line, an unmarked line outside a run passed through, and  *)
(* the run the input ends in emitted as the last line.                     *)
(***************************************************************************)
C22_MergerGivesLogicalLines ==
    pc = "merger_returned" => fn_out.merged_lines = LogicalLines(fn_in.lines)

\* the lines of L without their trailing whitespace
Stripped(L) == [i \in 1..Len(L) |-> rstrip(L[i])]

\* the input ends in a run that holds nothing but markers
EndsInEmptyRun(L) ==
    /\ L # <<>>
    /\ Marked(L[Len(L)])
    /\ LogicalLines(L)[Cardinality(RunEnds(L))] = <<>>

(***************************************************************************)
(* C22, amended. merge_lines_with_continuation first takes the trailing    *)
(* whitespace off every line, and a line is marked when it then ends with  *)
(* the marker. It returns the logical lines of these lines in input order: *)
(* each run of marked lines joined with the next unmarked line, markers    *)
(* taken off and no separator put in; an unmarked line outside a run as    *)
(* it is, without its trailing whitespace; and the run the input ends in   *)
(* as the last line, unless that run holds nothing but markers, in which   *)
(* case no line is emitted for it.                                         *)
(***************************************************************************)
C22_MergerGivesStrippedLogicalLines ==
    pc = "merger_returned" =>
        LET L == Stripped(fn_in.lines)
            all == LogicalLines(L)
        IN  fn_out.merged_lines =
                IF EndsInEmptyRun(L) THEN SubSeq(all, 1, Len(all) - 1) ELSE all

\* [a~, b, a~, a~] gives [ab, aa]: a run closed by a line, and the run the
\* input ends in
C22_Witness ==
    /\ pc = "merger_returned"
    /\ fn_in.lines = << <<"a", "~">>, <<"b">>, <<"a", "~">>, <<"a", "~">> >>
    /\ fn_out.merged_lines = << <<"a", "b">>, <<"a", "a">> >>

\* the strictly increasing choices of Len(e) positions of the lines a
Positions(e, a) ==
    {p \in [1..Len(e) -> 1..Len(a)] : \A j, k \in 1..Len(e) : j < k => p[j] < p[k]}

\* the orders of n fragments other than the order they are in
Reorderings(n) ==
    {s \in [1..n -> 1..n] :
        /\ \A j, k \in 1..n : j # k => s[j] # s[k]
        /\ \E j \in 1..n : s[j] # j}

\* the fragments e are lines of a, word for word, in the order of a
TakenInOrder(e, a) == \E p \in Positions(e, a) : \A j \in 1..Len(e) : e[j] = a[p[j]]

\* the fragments e are lines of a, word for word, in another order than in a
\* (and in no order in which a has them)
TakenReordered(e, a) ==
    /\ ~TakenInOrder(e, a)
    /\ \E p \in Positions(e, a) : \E s \in Reorderings(Len(e)) :
           \A j \in 1..Len(e) : e[j] = a[p[s[j]]]

\* each fragment of e is not blank and is found in one line of a only
FoundOnce(e, a) ==
    \A j \in 1..Len(e) :
        /\ JoinSplit(e[j]) # <<>>
        /\ Cardinality({i \in 1..Len(a) :
                           Contains(JoinSplit(e[j]), JoinSplit(a[i]))}) = 1

(***************************************************************************)
(* C23. As stated: the matcher returns true on an empty list of fragments, *)
(* true on fragments taken word for word from the actual lines in their    *)
(* order, and false on such fragments put in another order.                *)
(***************************************************************************)
C23_ReorderedFragmentsNeverMatch ==
    pc = "matcher_returned" =>
        /\ fn_in.expected_lines = <<>> => fn_out = TRUE
        /\ TakenInOrder(fn_in.expected_lines, fn_in.actual_lines) => fn_out = TRUE
        /\ TakenReordered(fn_in.expected_lines, fn_in.actual_lines) => fn_out = FALSE

(***************************************************************************)
(* C23, amended. The matcher returns true on an empty list of fragments    *)
(* and on fragments taken word for word from the actual lines in their     *)
(* order; it returns false on such fragments put in another order when     *)
(* each of them is not blank and is found in one actual line only. A       *)
(* fragment found in several lines, or a blank one, may leave the          *)
(* reordered list in order, and the matcher then returns true.             *)
(***************************************************************************)
C23_ReorderedFragmentsFoundOnce ==
    pc = "matcher_returned" =>
        /\ fn_in.expected_lines = <<>> => fn_out = TRUE
        /\ TakenInOrder(fn_in.expected_lines, fn_in.actual_lines) => fn_out = TRUE
        /\ (/\ TakenReordered(fn_in.expected_lines, fn_in.actual_lines)
            /\ FoundOnce(fn_in.expected_lines, fn_in.actual_lines)) => fn_out = FALSE

\* the lines a and b across a blank line, asked for as b then a
C23_Witness ==
    /\ pc = "matcher_returned"
    /\ fn_in.actual_lines = << <<"a">>, <<" ">>, <<"b", " ">> >>
    /\ fn_in.expected_lines = << <<"b", " ">>, <<"a">> >>
    /\ fn_out = FALSE


\* the kinds, the sources and the output texts of the cells of nb, in order
CellKinds(nb) == [i \in 1..Len(nb.cells) |-> nb.cells[i].cell_type]
Sources(nb) == [i \in 1..Len(nb.cells) |-> nb.cells[i].source]
OutputTexts(nb) ==
    [i \in 1..Len(nb.cells) |->
        IF "outputs" \in DOMAIN nb.cells[i]
        THEN [j \in 1..Len(nb.cells[i].outputs) |->
                 <<nb.cells[i].outputs[j].output_type, nb.cells[i].outputs[j].text>>]
        ELSE <<>>]

WithoutIds(nb) ==
    [k \in DOMAIN nb |->
        IF k = "cells"
        THEN [i \in 1..Len(nb[k]) |-> Without(nb[k][i], {"id"})]
        ELSE nb[k]]

\* two notebooks that differ in the ids of their cells and in nothing else
DifferOnlyInIds(a, b) == a # b /\ WithoutIds(a) = WithoutIds(b)

(***************************************************************************)
(* C25. normalize_notebook normalizes the id of every cell: two notebooks  *)
(* that differ only in the ids of their cells have equal normal forms.     *)
(***************************************************************************)
C25_CellIdsNormalized ==
    (pc = "notebook_returned" /\ DifferOnlyInIds(fn_in.nb, fn_in.other))
        => fn_out.nb = fn_out.other

====
